---- MODULE Spec2Model ----
\* Resilience layer of grafana-mcp: RetryableHttpClient (retry with exponential
\* backoff), CircuitBreaker (CLOSED / OPEN / HALF_OPEN) and ResilientErrorHandler.
\* Each component has its own specification over the variables it owns:
\*   SpecRetry    one withRetry call, attempt by attempt
\*   SpecClassify isRetryableError applied to every error shape
\*   SpecDelay    calculateDelay applied to successive attempts
\*   SpecBreaker  one CircuitBreaker shared by concurrent execute calls
EXTENDS Integers, Sequences, FiniteSets, TLC

VARIABLES
  \* ---- RetryableHttpClient.withRetry (one call) ----
  opts,            \* merged RetryOptions of the call
  rpc,             \* position in withRetry: idle / awaiting / sleeping / returned / thrown
  attempt,         \* loop variable `attempt`
  lastError,       \* local `lastError`
  result,          \* value returned to the caller
  thrown,          \* error thrown to the caller
  invocations,     \* number of times operation() was invoked
  sleeps,          \* delays passed to sleep(), in order (units of 1/Scale ms)
  errHist,         \* errors the operation rejected with, in order
  \* ---- isRetryableError as a pure function ----
  clsError,        \* input error
  classified,      \* "unset" / "retryable" / "non-retryable"
  \* ---- calculateDelay as a pure function ----
  delayAttempt,    \* attempt number last passed to calculateDelay (0: none yet)
  delay,           \* value it returned (units of 1/Scale ms)
  expDelay,        \* exponentialDelay of that attempt (ms)
  prevExpDelay,    \* exponentialDelay of the attempt before (ms)
  \* ---- CircuitBreaker ----
  state,           \* 'CLOSED' | 'OPEN' | 'HALF_OPEN'
  failureCount,
  lastFailureTime, \* Null or a timestamp
  failureThreshold,
  timeoutMs,
  now,             \* Date.now()
  pc,              \* per caller: "idle" or "awaiting" (its operation is outstanding)
  probe,           \* per caller: its outstanding operation was admitted in HALF_OPEN
  streak,          \* failures completed since the last success (or reset)
  prevState,       \* `state` before the last step
  event,           \* what the last step was
  \* ---- ResilientErrorHandler.executeWithResilience ----
  resp500,         \* consecutive 500 responses of the upstream (counted up to failureThreshold)
  \* ---- OptimizedCache ----
  cache,           \* the Map, as the sequence of its entries in insertion order
  maxSize,
  maxMemoryBytes,  \* the field maxMemoryMB, which holds bytes
  cnow,            \* Date.now() as the cache reads it
  cacheOp,         \* the last cache operation and what it returned
  \* ---- OptimizedGrafanaHttpClient.get ----
  requestPool,     \* the cache keys marked in flight
  dpc,             \* per caller: "idle" / "waiting" (polling) / "upstream" / "done"
  useCache,        \* per caller: the useCache argument of its call
  outcome,         \* per caller: "pending" / "resolved" / "rejected" / "timeout"
  returned,        \* per caller: the value its promise resolved with
  waitedOn,        \* per caller: the callers that were upstream when it began to wait
  upstreamCalls,   \* upstream calls started so far
  cleared,         \* an operation that empties the cache has run
  timer,           \* per caller: when its 30 s timer is due (Null: none pending)
  \* ---- OptimizedGrafanaHttpClient.executeRequest ----
  activeRequests,  \* HTTP requests sent and not yet answered
  requestQueue,    \* the callers whose operation is queued, in order
  tries,           \* per caller: failed attempts of its call that were retried
  \* ---- GrafanaHttpClient.get ----
  responseCache,   \* the Map: per key, whether it has an entry, its data and expires
  gkey,            \* cache key of the last call of get
  guse,            \* its useCache argument
  upstreamError,   \* the error of the upstream's last answer, before the interceptors
  lastFetch        \* per key: the last call with useCache that fetched it, when it completed

retryVars    == <<opts, rpc, attempt, lastError, result, thrown, invocations, sleeps, errHist>>
classifyVars == <<clsError, classified>>
delayVars    == <<delayAttempt, delay, expDelay, prevExpDelay>>
breakerVars  == <<state, failureCount, lastFailureTime, failureThreshold, timeoutMs,
                  now, pc, probe, streak, prevState, event>>
resilientVars == <<resp500>>
cacheVars == <<cache, maxSize, maxMemoryBytes, cnow, cacheOp>>
dedupVars == <<requestPool, dpc, useCache, outcome, returned, waitedOn, upstreamCalls, cleared,
               timer>>
queueVars == <<activeRequests, requestQueue, tries>>
grafanaVars == <<responseCache, gkey, guse, upstreamError, lastFetch>>
vars == <<retryVars, classifyVars, delayVars, breakerVars, resilientVars, cacheVars,
          dedupVars, queueVars, grafanaVars>>

\* what each component leaves alone
notRetry    == <<classifyVars, delayVars, breakerVars, resilientVars, cacheVars, dedupVars, queueVars, grafanaVars>>
notClassify == <<rpc, attempt, lastError, result, thrown, invocations, sleeps, errHist,
                 delayVars, breakerVars, resilientVars, cacheVars, dedupVars, queueVars, grafanaVars>>
notDelay    == <<rpc, attempt, lastError, result, thrown, invocations, sleeps, errHist,
                 classifyVars, breakerVars, resilientVars, cacheVars, dedupVars, queueVars, grafanaVars>>
notBreaker  == <<retryVars, classifyVars, delayVars, resilientVars, cacheVars, dedupVars, queueVars, grafanaVars>>
notCache    == <<retryVars, classifyVars, delayVars, breakerVars, resilientVars, dedupVars, queueVars, grafanaVars>>
notDedupClock == <<retryVars, classifyVars, delayVars, breakerVars, resilientVars,
                   maxSize, maxMemoryBytes, cacheOp, queueVars, grafanaVars>>
notDedup    == <<notDedupClock, cnow>>

\* ------------------------------------------------------------------ bounds
MaxRetriesBound == 3
JitterSteps == 4
MaxAttempt == 6
NumTasks == 2
MaxTime == 6
MaxFailureThreshold == 2
MaxTimeoutMs == 2
MaxResilientRetries == 2
MaxCacheSize == 2
MaxCacheTime == 2
MaxTtl == 1
NumCallers == 2
MaxFailureCount == 4
MaxDedupTicks == 1
NumQueueCallers == 4
MaxConcurrent == 1
MaxQueueRetries == 1

Null == -1
Tasks == 1..NumTasks

Min(a, b) == IF a <= b THEN a ELSE b

RECURSIVE Pow(_, _)
Pow(b, n) == IF n = 0 THEN 1 ELSE b * Pow(b, n - 1)

\* ------------------------------------------------------------------ errors
\* An error is its `code` ("" when it has none) and its `response.status`
\* (0 when there is no response or no status: both are falsy in the source).
MkError(c, s) == [code |-> c, status |-> s]
NoError == MkError("undefined", 0)
NoValue == "none"
Values == {"v1", "v2"}

DefaultStatuses == {408, 429, 500, 502, 503, 504}

DEFAULT_RETRY_OPTIONS ==
  [maxRetries |-> 3, baseDelayMs |-> 1000, maxDelayMs |-> 10000,
   exponentialBase |-> 2, retryableStatuses |-> DefaultStatuses]

\* Delays are rationals with denominator Scale: Math.random() is j / JitterSteps.
Scale == 8 * JitterSteps
Jitters == 0..(JitterSteps - 1)


\* ------------------------------------------------------------------ isRetryableError
IsRetryableError(error, options) ==
  IF error.code \in {"ETIMEDOUT", "ECONNREFUSED", "ENOTFOUND"} THEN TRUE
  ELSE IF error.status # 0 THEN error.status \in options.retryableStatuses
  ELSE IF error.code = "ECONNABORTED" THEN TRUE
  ELSE FALSE

\* ------------------------------------------------------------------ calculateDelay
\* exponentialDelay = baseDelayMs * exponentialBase ^ (attempt - 1), in ms
ExponentialDelay(att, options) ==
  options.baseDelayMs * Pow(options.exponentialBase, att - 1)

CalculateDelayUncapped(att, options, j) ==
  ExponentialDelay(att, options) * (7 * JitterSteps + 2 * j)

CalculateDelayOffByOne(att, options, j) ==
  Min(ExponentialDelay(att + 1, options) * (7 * JitterSteps + 2 * j),
      options.maxDelayMs * Scale)

\* jitter = exponentialDelay * 0.25 * (j / JitterSteps - 0.5); the sum, times Scale,
\* is exponentialDelay * (7 * JitterSteps + 2 * j); then Math.min with maxDelayMs.
CalculateDelay(att, options, j) ==
  Min(ExponentialDelay(att, options) * (7 * JitterSteps + 2 * j),
      options.maxDelayMs * Scale)

\* ------------------------------------------------------------------ withRetry
\* for (let attempt = 1; attempt <= opts.maxRetries + 1; attempt++)
LoopContinues(att, options) == att <= options.maxRetries + 1

CatchBreaksNoLastCheck(att, error, options) ==
  ~IsRetryableError(error, options)

CatchBreaksNoClassCheck(att, error, options) ==
  att > options.maxRetries

\* the two `break`s of the catch block
CatchBreaks(att, error, options) ==
  \/ att > options.maxRetries
  \/ ~IsRetryableError(error, options)

RetryIdle ==
  /\ rpc = "idle"
  /\ attempt = 0
  /\ lastError = NoError
  /\ result = NoValue
  /\ thrown = NoError
  /\ invocations = 0
  /\ sleeps = <<>>
  /\ errHist = <<>>

\* withRetry is called: the loop is entered and operation() invoked (attempt 1)
WithRetry ==
  /\ rpc = "idle"
  /\ attempt' = 1
  /\ IF LoopContinues(1, opts)
       THEN /\ invocations' = invocations + 1
            /\ rpc' = "awaiting"
            /\ thrown' = thrown
       ELSE /\ invocations' = invocations
            /\ rpc' = "thrown"
            /\ thrown' = lastError
  /\ UNCHANGED <<opts, lastError, result, sleeps, errHist>>
  /\ UNCHANGED notRetry

\* `return await operation()` with the operation resolving to v
AttemptResolvesCore(v) ==
  /\ rpc = "awaiting"
  /\ result' = v
  /\ rpc' = "returned"
  /\ UNCHANGED <<opts, attempt, lastError, thrown, invocations, sleeps, errHist>>

AttemptResolves(v) ==
  /\ AttemptResolvesCore(v)
  /\ UNCHANGED notRetry

\* the catch block, with the operation rejecting with `error`
AttemptRejectsCore(error) ==
  /\ rpc = "awaiting"
  /\ lastError' = error
  /\ errHist' = Append(errHist, error)
  /\ IF CatchBreaks(attempt, error, opts)
       THEN /\ rpc' = "thrown"
            /\ thrown' = lastError'
            /\ sleeps' = sleeps
       ELSE /\ \E j \in Jitters :
                 sleeps' = Append(sleeps, CalculateDelay(attempt, opts, j))
            /\ rpc' = "sleeping"
            /\ thrown' = thrown
  /\ UNCHANGED <<opts, attempt, result, invocations>>

AttemptRejects(error) ==
  /\ AttemptRejectsCore(error)
  /\ UNCHANGED notRetry

\* sleep(delay) resolves: attempt++, loop test, next operation() or `throw lastError`
SleepElapsesCore ==
  /\ rpc = "sleeping"
  /\ attempt' = attempt + 1
  /\ IF LoopContinues(attempt + 1, opts)
       THEN /\ invocations' = invocations + 1
            /\ rpc' = "awaiting"
            /\ thrown' = thrown
       ELSE /\ invocations' = invocations
            /\ rpc' = "thrown"
            /\ thrown' = lastError
  /\ UNCHANGED <<opts, lastError, result, sleeps, errHist>>

SleepElapses ==
  /\ SleepElapsesCore
  /\ UNCHANGED notRetry

\* ------------------------------------------------------------------ pure-function drivers
ClassifyIdle ==
  /\ clsError = NoError
  /\ classified = "unset"

\* isRetryableError(clsError, opts) is evaluated
Classify ==
  /\ classified = "unset"
  /\ classified' = IF IsRetryableError(clsError, opts) THEN "retryable"
                   ELSE "non-retryable"
  /\ UNCHANGED <<clsError, opts>>
  /\ UNCHANGED notClassify

DelayIdle ==
  /\ delayAttempt = 0
  /\ delay = 0
  /\ expDelay = 0
  /\ prevExpDelay = 0

\* calculateDelay(delayAttempt + 1, opts) is evaluated, with jitter draw j
NextDelay ==
  /\ delayAttempt < MaxAttempt
  /\ delayAttempt' = delayAttempt + 1
  /\ prevExpDelay' = expDelay
  /\ expDelay' = ExponentialDelay(delayAttempt + 1, opts)
  /\ \E j \in Jitters : delay' = CalculateDelay(delayAttempt + 1, opts, j)
  /\ UNCHANGED opts
  /\ UNCHANGED notDelay

\* ------------------------------------------------------------------ CircuitBreaker
BreakerIdle ==
  /\ state = "CLOSED"
  /\ failureCount = 0
  /\ lastFailureTime = Null
  /\ now = 0
  /\ pc = [t \in Tasks |-> "idle"]
  /\ probe = [t \in Tasks |-> FALSE]
  /\ streak = 0
  /\ prevState = "CLOSED"
  /\ event = "init"

ResilientIdle == resp500 = 0

NoOp == [op |-> "init", key |-> "", val |-> "null"]

Callers == 1..NumCallers

DedupIdle ==
  /\ requestPool = {}
  /\ dpc = [c \in Callers |-> "idle"]
  /\ useCache = [c \in Callers |-> TRUE]
  /\ outcome = [c \in Callers |-> "pending"]
  /\ returned = [c \in Callers |-> "null"]
  /\ waitedOn = [c \in Callers |-> {}]
  /\ upstreamCalls = 0
  /\ cleared = FALSE
  /\ timer = [c \in Callers |-> Null]

QueueIdle ==
  /\ activeRequests = 0
  /\ requestQueue = <<>>
  /\ tries = [c \in Callers |-> 0]

\* GrafanaHttpClient: the cache keys used, and a key without an entry
GrafanaKeys == {"/api/health:", "/api/search:"}
NoEntry == [has |-> FALSE, data |-> "null", expires |-> 0]
NoFetch == [has |-> FALSE, data |-> "null", at |-> 0]

GrafanaIdle ==
  /\ responseCache = [k \in GrafanaKeys |-> NoEntry]
  /\ gkey = ""
  /\ guse = FALSE
  /\ upstreamError = NoError
  /\ lastFetch = [k \in GrafanaKeys |-> NoFetch]

CacheIdle ==
  /\ cache = <<>>
  /\ maxSize = 1000
  /\ maxMemoryBytes = 10485760
  /\ cnow = 0
  /\ cacheOp = NoOp

ShouldAttemptResetNoTimeout == lastFailureTime # Null

ShouldAttemptResetNever == FALSE

ShouldAttemptResetAtEquality ==
  lastFailureTime # Null /\ (now - lastFailureTime) >= timeoutMs

ShouldAttemptReset ==
  lastFailureTime # Null /\ (now - lastFailureTime) > timeoutMs

OnSuccessClosesOnlyProbe ==
  /\ failureCount' = 0
  /\ lastFailureTime' = Null
  /\ state' = IF state = "HALF_OPEN" THEN "CLOSED" ELSE state

OnSuccess ==
  /\ failureCount' = 0
  /\ lastFailureTime' = Null
  /\ state' = "CLOSED"

OnFailureStrictThreshold ==
  /\ failureCount' = failureCount + 1
  /\ lastFailureTime' = now
  /\ state' = IF failureCount + 1 > failureThreshold THEN "OPEN" ELSE state

OnFailureKeepsFirstTime ==
  /\ failureCount' = failureCount + 1
  /\ lastFailureTime' = IF lastFailureTime = Null THEN now ELSE lastFailureTime
  /\ state' = IF failureCount + 1 >= failureThreshold THEN "OPEN" ELSE state

OnFailure ==
  /\ failureCount' = failureCount + 1
  /\ lastFailureTime' = now
  /\ state' = IF failureCount + 1 >= failureThreshold THEN "OPEN" ELSE state

\* execute() up to its first suspension: the OPEN check, then operation() is invoked
Execute(t) ==
  /\ pc[t] = "idle"
  /\ IF state = "OPEN" /\ ~ShouldAttemptReset
       THEN \* throw new Error('Circuit breaker is OPEN ...')
            /\ event' = "circuit_open"
            /\ UNCHANGED <<state, pc, probe>>
       ELSE /\ state' = IF state = "OPEN" THEN "HALF_OPEN" ELSE state
            /\ pc' = [pc EXCEPT ![t] = "awaiting"]
            /\ probe' = [probe EXCEPT ![t] = (state' = "HALF_OPEN")]
            /\ event' = "admit"
  /\ prevState' = state
  /\ UNCHANGED <<failureCount, lastFailureTime, failureThreshold, timeoutMs, now, streak>>
  /\ UNCHANGED notBreaker

\* the awaited operation of caller t resolves: onSuccess(); return result
OperationResolvesCore(t) ==
  /\ pc[t] = "awaiting"
  /\ OnSuccess
  /\ pc' = [pc EXCEPT ![t] = "idle"]
  /\ probe' = [probe EXCEPT ![t] = FALSE]
  /\ streak' = 0
  /\ event' = "ok"
  /\ prevState' = state
  /\ UNCHANGED <<failureThreshold, timeoutMs, now>>

OperationResolves(t) ==
  /\ OperationResolvesCore(t)
  /\ UNCHANGED notBreaker

\* the awaited operation of caller t rejects: onFailure(); throw error
OperationRejectsCore(t) ==
  /\ pc[t] = "awaiting"
  /\ OnFailure
  /\ pc' = [pc EXCEPT ![t] = "idle"]
  /\ probe' = [probe EXCEPT ![t] = FALSE]
  /\ streak' = streak + 1
  /\ event' = "error"
  /\ prevState' = state
  /\ UNCHANGED <<failureThreshold, timeoutMs, now>>

OperationRejects(t) ==
  /\ OperationRejectsCore(t)
  /\ UNCHANGED notBreaker

ResetKeepsFailureTime ==
  /\ failureCount' = 0
  /\ lastFailureTime' = lastFailureTime
  /\ state' = "CLOSED"
  /\ streak' = 0
  /\ event' = "reset"
  /\ prevState' = state
  /\ UNCHANGED <<failureThreshold, timeoutMs, now, pc, probe>>
  /\ UNCHANGED notBreaker

\* reset()
Reset ==
  /\ failureCount' = 0
  /\ lastFailureTime' = Null
  /\ state' = "CLOSED"
  /\ streak' = 0
  /\ event' = "reset"
  /\ prevState' = state
  /\ UNCHANGED <<failureThreshold, timeoutMs, now, pc, probe>>
  /\ UNCHANGED notBreaker

\* the clock read by Date.now() advances
Tick ==
  /\ now < MaxTime
  /\ now' = now + 1
  /\ event' = "tick"
  /\ prevState' = state
  /\ UNCHANGED <<state, failureCount, lastFailureTime, failureThreshold, timeoutMs,
                 pc, probe, streak>>
  /\ UNCHANGED notBreaker

\* ------------------------------------------------------------------ specifications
RetryErrors ==
  { MkError("", 503), MkError("ETIMEDOUT", 0), MkError("", 404), MkError("", 0) }

RetryPolicies ==
  { [maxRetries |-> m, baseDelayMs |-> 1000, maxDelayMs |-> x,
     exponentialBase |-> 2, retryableStatuses |-> DefaultStatuses] :
      m \in 0..MaxRetriesBound, x \in {3000, 10000} }

InitRetry ==
  /\ opts \in RetryPolicies
  /\ RetryIdle /\ ClassifyIdle /\ DelayIdle /\ BreakerIdle /\ ResilientIdle /\ CacheIdle /\ DedupIdle /\ QueueIdle /\ GrafanaIdle
  /\ failureThreshold = 1 /\ timeoutMs = 1

NextRetry ==
  \/ WithRetry
  \/ \E v \in Values : AttemptResolves(v)
  \/ \E e \in RetryErrors : AttemptRejects(e)
  \/ SleepElapses

SpecRetry == InitRetry /\ [][NextRetry]_vars

ErrorCodes ==
  {"", "ETIMEDOUT", "ECONNREFUSED", "ENOTFOUND", "ECONNABORTED", "ERR_BAD_REQUEST",
   "ERR_BAD_RESPONSE"}
ErrorStatuses == {0, 400, 401, 404, 408, 429, 500, 502, 503, 504}
StatusSets == {DefaultStatuses, {503}}

InitClassify ==
  /\ \E ss \in StatusSets : opts = [DEFAULT_RETRY_OPTIONS EXCEPT !.retryableStatuses = ss]
  /\ \E c \in ErrorCodes, s \in ErrorStatuses : clsError = MkError(c, s)
  /\ classified = "unset"
  /\ RetryIdle /\ DelayIdle /\ BreakerIdle /\ ResilientIdle /\ CacheIdle /\ DedupIdle /\ QueueIdle /\ GrafanaIdle
  /\ failureThreshold = 1 /\ timeoutMs = 1

SpecClassify == InitClassify /\ [][Classify]_vars

DelayPolicies ==
  { [maxRetries |-> 3, baseDelayMs |-> b, maxDelayMs |-> x,
     exponentialBase |-> e, retryableStatuses |-> DefaultStatuses] :
      b \in {100, 1000}, x \in {3000, 10000}, e \in {2, 3} }

InitDelay ==
  /\ opts \in DelayPolicies
  /\ RetryIdle /\ ClassifyIdle /\ DelayIdle /\ BreakerIdle /\ ResilientIdle /\ CacheIdle /\ DedupIdle /\ QueueIdle /\ GrafanaIdle
  /\ failureThreshold = 1 /\ timeoutMs = 1

SpecDelay == InitDelay /\ [][NextDelay]_vars

InitBreaker ==
  /\ opts = DEFAULT_RETRY_OPTIONS
  /\ RetryIdle /\ ClassifyIdle /\ DelayIdle /\ BreakerIdle /\ ResilientIdle /\ CacheIdle /\ DedupIdle /\ QueueIdle /\ GrafanaIdle
  /\ failureThreshold \in 1..MaxFailureThreshold
  /\ timeoutMs \in 1..MaxTimeoutMs

NextBreaker ==
  \/ \E t \in Tasks : Execute(t)
  \/ \E t \in Tasks : OperationResolves(t)
  \/ \E t \in Tasks : OperationRejects(t)
  \/ Reset
  \/ Tick

SpecBreaker == InitBreaker /\ [][NextBreaker]_vars

\* -- the breaker with time that never stops
\* The clock advances for ever. Past MaxTime the time axis is shifted instead: only
\* now - lastFailureTime is ever read, and a difference of MaxTime is already
\* greater than every timeoutMs, so the shifted lastFailureTime stops at 0.
TickLive ==
  /\ IF now < MaxTime
       THEN now' = now + 1 /\ lastFailureTime' = lastFailureTime
       ELSE /\ now' = now
            /\ lastFailureTime' = IF lastFailureTime > 0 THEN lastFailureTime - 1
                                                        ELSE lastFailureTime
  /\ event' = "tick"
  /\ prevState' = state
  /\ UNCHANGED <<state, failureCount, failureThreshold, timeoutMs, pc, probe, streak>>
  /\ UNCHANGED notBreaker

\* failures are counted up to MaxFailureCount
OperationRejectsBounded(t) ==
  /\ failureCount < MaxFailureCount
  /\ OperationRejects(t)

NextBreakerLive ==
  \/ \E t \in Tasks : Execute(t)
  \/ \E t \in Tasks : OperationResolves(t)
  \/ \E t \in Tasks : OperationRejectsBounded(t)
  \/ Reset
  \/ TickLive

\* time keeps advancing, calls keep arriving, and every operation settles
SpecBreakerLive ==
  /\ InitBreaker
  /\ [][NextBreakerLive]_vars
  /\ WF_vars(TickLive)
  /\ \A t \in Tasks : WF_vars(Execute(t))
  /\ \A t \in Tasks : WF_vars(OperationResolves(t) \/ OperationRejectsBounded(t))

\* ------------------------------------------------------------------ executeWithResilience
\* One caller (task 1) calls executeWithResilience again and again:
\* circuitBreaker.execute(() => retryClient.withRetry(operation)).
ScenarioThreshold == 5

ResilientErrors == { MkError("", 500), MkError("", 404) }

ResilientPolicies ==
  { [DEFAULT_RETRY_OPTIONS EXCEPT !.maxRetries = m] : m \in 0..MaxResilientRetries }

Count500(error) ==
  IF error.status = 500 THEN Min(resp500 + 1, failureThreshold) ELSE 0

\* executeWithResilience is called: execute's OPEN check, then withRetry is entered
\* and operation() invoked for attempt 1 (maxRetries is a non-negative integer)
ResilientCallCore ==
  /\ pc[1] = "idle"
  /\ LoopContinues(1, opts)
  /\ IF state = "OPEN" /\ ~ShouldAttemptReset
       THEN /\ event' = "circuit_open"
            /\ rpc' = "idle"
            /\ attempt' = 0
            /\ invocations' = 0
            /\ UNCHANGED <<state, pc, probe>>
       ELSE /\ state' = IF state = "OPEN" THEN "HALF_OPEN" ELSE state
            /\ pc' = [pc EXCEPT ![1] = "awaiting"]
            /\ probe' = [probe EXCEPT ![1] = (state' = "HALF_OPEN")]
            /\ event' = "admit"
            /\ rpc' = "awaiting"
            /\ attempt' = 1
            /\ invocations' = 1
  /\ lastError' = NoError
  /\ result' = NoValue
  /\ thrown' = NoError
  /\ sleeps' = <<>>
  /\ errHist' = <<>>
  /\ prevState' = state
  /\ UNCHANGED <<failureCount, lastFailureTime, failureThreshold, timeoutMs, now, streak>>
  /\ UNCHANGED opts

ResilientCall ==
  /\ ResilientCallCore
  /\ UNCHANGED <<resp500, classifyVars, delayVars, cacheVars, dedupVars, queueVars, grafanaVars>>

\* the upstream answers an attempt with success: withRetry returns, execute runs onSuccess
ResilientAttemptResolves(v) ==
  /\ AttemptResolvesCore(v)
  /\ OperationResolvesCore(1)
  /\ resp500' = 0
  /\ UNCHANGED <<classifyVars, delayVars, cacheVars, dedupVars, queueVars, grafanaVars>>

ResilientAttemptRejectsCountsEach(error) ==
  /\ AttemptRejectsCore(error)
  /\ resp500' = Count500(error)
  /\ IF rpc' = "thrown"
       THEN OperationRejectsCore(1)
       ELSE /\ OnFailure
            /\ streak' = streak + 1
            /\ event' = "error"
            /\ prevState' = state
            /\ UNCHANGED <<failureThreshold, timeoutMs, now, pc, probe>>
  /\ UNCHANGED <<classifyVars, delayVars, cacheVars, dedupVars, queueVars, grafanaVars>>

\* only errors that the retry policy calls retryable count against the breaker
ResilientAttemptRejectsSkipsTerminal(error) ==
  /\ AttemptRejectsCore(error)
  /\ resp500' = Count500(error)
  /\ IF rpc' = "thrown" /\ IsRetryableError(error, opts)
       THEN OperationRejectsCore(1)
       ELSE IF rpc' = "thrown"
         THEN /\ pc' = [pc EXCEPT ![1] = "idle"]
              /\ probe' = [probe EXCEPT ![1] = FALSE]
              /\ event' = "error"
              /\ prevState' = state
              /\ UNCHANGED <<state, failureCount, lastFailureTime, failureThreshold,
                             timeoutMs, now, streak>>
         ELSE UNCHANGED breakerVars
  /\ UNCHANGED <<classifyVars, delayVars, cacheVars, dedupVars, queueVars, grafanaVars>>

\* the upstream answers an attempt with an error: withRetry's catch block; when it
\* throws, execute's catch block runs onFailure
ResilientAttemptRejects(error) ==
  /\ AttemptRejectsCore(error)
  /\ resp500' = Count500(error)
  /\ IF rpc' = "thrown"
       THEN OperationRejectsCore(1)
       ELSE UNCHANGED breakerVars
  /\ UNCHANGED <<classifyVars, delayVars, cacheVars, dedupVars, queueVars, grafanaVars>>

\* a backoff sleep of withRetry ends inside execute's await
ResilientSleepElapses ==
  /\ SleepElapsesCore
  /\ IF rpc' = "thrown"
       THEN OperationRejectsCore(1)
       ELSE UNCHANGED breakerVars
  /\ UNCHANGED <<resp500, classifyVars, delayVars, cacheVars, dedupVars, queueVars, grafanaVars>>

InitResilient ==
  /\ opts \in ResilientPolicies
  /\ RetryIdle /\ ClassifyIdle /\ DelayIdle /\ BreakerIdle /\ ResilientIdle /\ CacheIdle /\ DedupIdle /\ QueueIdle /\ GrafanaIdle
  /\ failureThreshold \in (1..MaxFailureThreshold) \cup {ScenarioThreshold}
  /\ timeoutMs \in 1..MaxTimeoutMs

NextResilient ==
  \/ ResilientCall
  \/ \E v \in Values : ResilientAttemptResolves(v)
  \/ \E e \in ResilientErrors : ResilientAttemptRejects(e)
  \/ ResilientSleepElapses
  \/ Tick

SpecResilient == InitResilient /\ [][NextResilient]_vars

\* ------------------------------------------------------------------ OptimizedCache
EntryBytes == 2048
DefaultMemoryBytes == 10 * 1024 * 1024

MkEntry(k, d, x, a) == [key |-> k, data |-> d, expires |-> x, lastAccessed |-> a]

HasKey(c, k) == \E i \in 1..Len(c) : c[i].key = k
IndexOf(c, k) == CHOOSE i \in 1..Len(c) : c[i].key = k
RemoveKey(c, k) == SelectSeq(c, LAMBDA e : e.key # k)
RemoveAt(c, i) == SubSeq(c, 1, i - 1) \o SubSeq(c, i + 1, Len(c))

\* Map.set: an existing key keeps its place in the iteration order
MapSet(c, e) ==
  IF HasKey(c, e.key) THEN [c EXCEPT ![IndexOf(c, e.key)] = e] ELSE Append(c, e)

\* the entry counts as live at the instant its expiry time is reached
IsExpiredAtEquality(entry, t) == entry.expires <= t

\* lines 29 and 47: entry.expires < Date.now()
IsExpired(entry, t) == entry.expires < t

\* lines 45-50: delete every expired entry
ExpirePass(c, t) == SelectSeq(c, LAMBDA e : ~IsExpired(e, t))

\* lines 54-62: the first entry, in iteration order, with the least lastAccessed
OldestIndex(c) ==
  CHOOSE i \in 1..Len(c) :
    /\ \A j \in 1..Len(c) : c[j].lastAccessed >= c[i].lastAccessed
    /\ \A j \in 1..(i - 1) : c[j].lastAccessed > c[i].lastAccessed

\* lines 53-69: while (size > maxSize) delete the oldest; `if (oldestKey)` is false
\* for the key '' and the loop is left
RECURSIVE CapacityPass(_, _)
CapacityPass(c, size) ==
  IF Len(c) > size /\ Len(c) > 0
    THEN LET oldestKey == c[OldestIndex(c)].key IN
         IF oldestKey # "" THEN CapacityPass(RemoveKey(c, oldestKey), size) ELSE c
    ELSE c

\* Array.prototype.sort by lastAccessed ascending (stable)
RECURSIVE SortByAccess(_)
SortByAccess(c) ==
  IF c = <<>> THEN <<>>
  ELSE LET i == OldestIndex(c) IN <<c[i]>> \o SortByAccess(RemoveAt(c, i))

\* lines 91-93: for (i = 0; i < this.cache.size - targetSize; i++) delete entries[i];
\* cache.size is read again on every iteration
RECURSIVE EvictLoop(_, _, _, _)
EvictLoop(c, entries, i, targetSize) ==
  IF i < Len(c) - targetSize
    THEN EvictLoop(RemoveKey(c, entries[i + 1].key), entries, i + 1, targetSize)
    ELSE c

\* Math.floor(size * 0.75)
EvictLargestEntries(c) ==
  EvictLoop(c, SortByAccess(c), 0, (Len(c) * 3) \div 4)

EstimateMemoryUsage(c) == Len(c) * EntryBytes

MemoryPass(c, mem) ==
  IF EstimateMemoryUsage(c) > mem THEN EvictLargestEntries(c) ELSE c

EvictIfNeeded(c, t, size, mem) ==
  MemoryPass(CapacityPass(ExpirePass(c, t), size), mem)

\* what get(key) returns for the cache c at time t
GetResult(c, k, t) ==
  IF ~HasKey(c, k) THEN "null"
  ELSE IF IsExpired(c[IndexOf(c, k)], t) THEN "null" ELSE c[IndexOf(c, k)].data

\* the Map after get(key) at time t: a stale entry is deleted, a live one is touched
AfterGet(c, k, t) ==
  IF ~HasKey(c, k) THEN c
  ELSE IF IsExpired(c[IndexOf(c, k)], t) THEN RemoveKey(c, k)
       ELSE [c EXCEPT ![IndexOf(c, k)].lastAccessed = t]

\* get(key)
CacheGet(k) ==
  /\ cache' = AfterGet(cache, k, cnow)
  /\ cacheOp' = [op |-> "get", key |-> k, val |-> GetResult(cache, k, cnow)]
  /\ UNCHANGED <<maxSize, maxMemoryBytes, cnow>>
  /\ UNCHANGED notCache

\* the Map after set(key, data, ttl) at time t
AfterSet(c, k, d, ttl, t, size, mem) ==
  EvictIfNeeded(MapSet(c, MkEntry(k, d, t + ttl, t)), t, size, mem)

\* set(key, data, ttl)
CacheSet(k, d, ttl) ==
  /\ cache' = AfterSet(cache, k, d, ttl, cnow, maxSize, maxMemoryBytes)
  /\ cacheOp' = [op |-> "set", key |-> k, val |-> d]
  /\ UNCHANGED <<maxSize, maxMemoryBytes, cnow>>
  /\ UNCHANGED notCache

\* clear()
CacheClear ==
  /\ cache' = <<>>
  /\ cacheOp' = [op |-> "clear", key |-> "", val |-> "null"]
  /\ UNCHANGED <<maxSize, maxMemoryBytes, cnow>>
  /\ UNCHANGED notCache

\* the clock read by Date.now() advances
CacheTick ==
  /\ cnow < MaxCacheTime
  /\ cnow' = cnow + 1
  /\ cacheOp' = [op |-> "tick", key |-> "", val |-> "null"]
  /\ UNCHANGED <<cache, maxSize, maxMemoryBytes>>
  /\ UNCHANGED notCache

CacheKeys == {"", "a", "b"}
CacheTtls == 0..MaxTtl

InitCache ==
  /\ opts = DEFAULT_RETRY_OPTIONS
  /\ RetryIdle /\ ClassifyIdle /\ DelayIdle /\ BreakerIdle /\ ResilientIdle
  /\ DedupIdle /\ QueueIdle /\ GrafanaIdle
  /\ failureThreshold = 1 /\ timeoutMs = 1
  /\ cache = <<>>
  /\ cnow = 0
  /\ cacheOp = NoOp
  /\ maxSize \in 1..MaxCacheSize
  /\ maxMemoryBytes \in {EntryBytes, DefaultMemoryBytes}

NextCache ==
  \/ \E k \in CacheKeys : CacheGet(k)
  \/ \E k \in CacheKeys, d \in Values, ttl \in CacheTtls : CacheSet(k, d, ttl)
  \/ CacheClear
  \/ CacheTick

SpecCache == InitCache /\ [][NextCache]_vars

\* a cache whose memory limit, not its size limit, is what binds
MemoryLimitEntries == 4
MemoryKeys == {"a", "b", "c", "d", "e"}
LongTtl == 60000

InitCacheMemory ==
  /\ opts = DEFAULT_RETRY_OPTIONS
  /\ RetryIdle /\ ClassifyIdle /\ DelayIdle /\ BreakerIdle /\ ResilientIdle
  /\ DedupIdle /\ QueueIdle /\ GrafanaIdle
  /\ failureThreshold = 1 /\ timeoutMs = 1
  /\ cache = <<>>
  /\ cnow = 0
  /\ cacheOp = NoOp
  /\ maxSize = 1000
  /\ maxMemoryBytes = MemoryLimitEntries * EntryBytes

NextCacheMemory ==
  \/ \E k \in MemoryKeys : CacheGet(k)
  \/ \E k \in MemoryKeys : CacheSet(k, "v1", LongTtl)
  \/ CacheTick

SpecCacheMemory == InitCacheMemory /\ [][NextCacheMemory]_vars

\* ------------------------------------------------------------------ OptimizedGrafanaHttpClient.get
\* generateCacheKey: `${url}:${paramString}` of the one resource the callers ask for
DedupKey == "/api/health:"
\* response.data values the upstream can resolve with; '' is falsy
DedupResults == {"v1", ""}
ResponseMemoryBytes == 50 * 1024 * 1024

\* line 385: the wait for an in-flight call is abandoned after 30 s
WaitTimeoutMs == 30000
\* the clock moves in steps of the wait timeout, up to DedupHorizon
DedupHorizon == MaxDedupTicks * WaitTimeoutMs

\* JavaScript truthiness of a cached value (null: nothing cached)
Truthy(v) == v # "" /\ v # "null"

\* lines 389-400: mark the key in flight and issue the upstream call
StartUpstream(c) ==
  /\ requestPool' = requestPool \cup {DedupKey}
  /\ dpc' = [dpc EXCEPT ![c] = "upstream"]
  /\ upstreamCalls' = upstreamCalls + 1
  /\ UNCHANGED <<outcome, returned>>

\* resolve the caller's promise with a cached value
ResolveFromCache(c, v) ==
  /\ dpc' = [dpc EXCEPT ![c] = "done"]
  /\ outcome' = [outcome EXCEPT ![c] = "resolved"]
  /\ returned' = [returned EXCEPT ![c] = v]
  /\ UNCHANGED <<requestPool, upstreamCalls>>

\* get(url, params, useCache) up to its first suspension
DedupGet(c, u) ==
  /\ dpc[c] = "idle"
  /\ cnow < DedupHorizon
  /\ useCache' = [useCache EXCEPT ![c] = u]
  /\ cache' = IF u THEN AfterGet(cache, DedupKey, cnow) ELSE cache
  /\ LET cached == IF u THEN GetResult(cache, DedupKey, cnow) ELSE "null" IN
     IF Truthy(cached)
       THEN ResolveFromCache(c, cached) /\ UNCHANGED <<waitedOn, timer>>
       ELSE IF DedupKey \in requestPool
         THEN /\ dpc' = [dpc EXCEPT ![c] = "waiting"]
              /\ waitedOn' = [waitedOn EXCEPT ![c] = {d \in Callers : dpc[d] = "upstream"}]
              /\ timer' = [timer EXCEPT ![c] = cnow + WaitTimeoutMs]
              /\ UNCHANGED <<requestPool, outcome, returned, upstreamCalls>>
         ELSE StartUpstream(c) /\ UNCHANGED <<waitedOn, timer>>
  /\ UNCHANGED cleared
  /\ UNCHANGED notDedup

\* the upstream call of caller c resolves with d: cache it, return it, unmark the key
UpstreamResolves(c, d) ==
  /\ dpc[c] = "upstream"
  /\ cache' = IF useCache[c]
                THEN AfterSet(cache, DedupKey, d, LongTtl, cnow, maxSize, maxMemoryBytes)
                ELSE cache
  /\ requestPool' = requestPool \ {DedupKey}
  /\ dpc' = [dpc EXCEPT ![c] = "done"]
  /\ outcome' = [outcome EXCEPT ![c] = IF @ = "pending" THEN "resolved" ELSE @]
  /\ returned' = [returned EXCEPT ![c] = IF outcome[c] = "pending" THEN d ELSE @]
  /\ UNCHANGED <<useCache, waitedOn, upstreamCalls, cleared, timer>>
  /\ UNCHANGED notDedup

\* the upstream call of caller c rejects: the finally block unmarks the key
UpstreamRejects(c) ==
  /\ dpc[c] = "upstream"
  /\ requestPool' = requestPool \ {DedupKey}
  /\ dpc' = [dpc EXCEPT ![c] = "done"]
  /\ outcome' = [outcome EXCEPT ![c] = IF @ = "pending" THEN "rejected" ELSE @]
  /\ UNCHANGED <<cache, useCache, returned, waitedOn, upstreamCalls, cleared, timer>>
  /\ UNCHANGED notDedup

\* lines 367-379: an interval tick of a waiter that finds the key unmarked
\* (a tick that finds it marked changes nothing)
Poll(c) ==
  /\ dpc[c] = "waiting"
  /\ DedupKey \notin requestPool
  /\ cache' = AfterGet(cache, DedupKey, cnow)
  /\ LET cached == GetResult(cache, DedupKey, cnow) IN
     IF Truthy(cached)
       THEN ResolveFromCache(c, cached)
       ELSE StartUpstream(c)
  /\ UNCHANGED <<useCache, waitedOn, cleared, timer>>
  /\ UNCHANGED notDedup

TimerNeverDue(c) == FALSE

\* the setTimeout of caller c has run its 30 s
TimerDue(c) == timer[c] # Null /\ cnow >= timer[c]

\* lines 382-385: the 30 s timer of a caller that waited fires: clearInterval, then
\* reject, which has no effect on a promise that has settled
DedupTimeout(c) ==
  /\ TimerDue(c)
  /\ timer' = [timer EXCEPT ![c] = Null]
  /\ outcome' = [outcome EXCEPT ![c] = IF @ = "pending" THEN "timeout" ELSE @]
  /\ dpc' = [dpc EXCEPT ![c] = IF @ = "waiting" THEN "done" ELSE @]
  /\ UNCHANGED <<cache, requestPool, useCache, returned, waitedOn, upstreamCalls, cleared>>
  /\ UNCHANGED notDedup

\* time passes; a timer that is due runs before the clock moves on
DedupTick ==
  /\ cnow < DedupHorizon
  /\ \A c \in Callers : ~TimerDue(c)
  /\ cnow' = cnow + WaitTimeoutMs
  /\ UNCHANGED <<cache, dedupVars>>
  /\ UNCHANGED notDedupClock

\* cleanup()
Cleanup ==
  /\ cache' = <<>>
  /\ requestPool' = {}
  /\ cleared' = TRUE
  /\ requestQueue' = <<>>
  /\ UNCHANGED <<dpc, useCache, outcome, returned, waitedOn, upstreamCalls, timer>>
  /\ UNCHANGED <<activeRequests, tries, cnow, maxSize, maxMemoryBytes, cacheOp>>
  /\ UNCHANGED <<retryVars, classifyVars, delayVars, breakerVars, resilientVars, grafanaVars>>

\* optimize()
Optimize ==
  /\ cache' = <<>>
  /\ cleared' = TRUE
  /\ UNCHANGED <<requestPool, dpc, useCache, outcome, returned, waitedOn, upstreamCalls,
                 timer>>
  /\ UNCHANGED notDedup

InitDedup ==
  /\ opts = DEFAULT_RETRY_OPTIONS
  /\ RetryIdle /\ ClassifyIdle /\ DelayIdle /\ BreakerIdle /\ ResilientIdle
  /\ DedupIdle /\ QueueIdle /\ GrafanaIdle
  /\ failureThreshold = 1 /\ timeoutMs = 1
  /\ cache = <<>>
  /\ cnow = 0
  /\ cacheOp = NoOp
  /\ maxSize = 1000
  /\ maxMemoryBytes = ResponseMemoryBytes

NextDedup ==
  \/ \E c \in Callers, u \in BOOLEAN : DedupGet(c, u)
  \/ \E c \in Callers, d \in DedupResults : UpstreamResolves(c, d)
  \/ \E c \in Callers : UpstreamRejects(c)
  \/ \E c \in Callers : Poll(c)
  \/ \E c \in Callers : DedupTimeout(c)
  \/ DedupTick
  \/ Cleanup
  \/ Optimize

SpecDedup == InitDedup /\ [][NextDedup]_vars

\* get and its callbacks, with no administrative operation
NextDedupLive ==
  \/ \E c \in Callers, u \in BOOLEAN : DedupGet(c, u)
  \/ \E c \in Callers, d \in DedupResults : UpstreamResolves(c, d)
  \/ \E c \in Callers : UpstreamRejects(c)
  \/ \E c \in Callers : Poll(c)
  \/ \E c \in Callers : DedupTimeout(c)
  \/ DedupTick

\* the clock keeps running and a timer that is due fires
SpecDedupLive ==
  /\ InitDedup
  /\ [][NextDedupLive]_vars
  /\ WF_vars(DedupTick)
  /\ \A c \in Callers : WF_vars(DedupTimeout(c))

\* ------------------------------------------------------------------ executeRequest and the request queue
\* MAX_CONCURRENT_REQUESTS and failureThreshold are scaled down to MaxConcurrent and
\* 1..MaxFailureThreshold. Every caller asks for a resource of its own, once, so
\* its key is neither cached nor in flight when it calls. Callers arrive in separate
\* tasks: the request interceptor of a call has run before the next call is made.
QueueCallers == 1..NumQueueCallers
QueueKeys == <<"/api/a:", "/api/b:", "/api/c:", "/api/d:", "/api/e:">>
QueueKey(c) == QueueKeys[c]
\* answers of the upstream to one attempt
Answers == {"ok", "retryable", "terminal"}

\* circuitBreaker.execute's admission test for the breaker state st
Admits(st) == ~(st = "OPEN" /\ ~ShouldAttemptReset)
\* the state in which an admitted call leaves the breaker
AdmittedState(st) == IF st = "OPEN" THEN "HALF_OPEN" ELSE st

\* get for a new key when fewer than the limit are active: the operation runs at once
\* (rejected by an open circuit, or its HTTP request sent); otherwise it is queued
QueueGet(c) ==
  /\ dpc[c] = "idle"
  /\ ~Truthy(GetResult(cache, QueueKey(c), cnow))
  /\ QueueKey(c) \notin requestPool
  /\ IF activeRequests >= MaxConcurrent
       THEN /\ requestQueue' = Append(requestQueue, c)
            /\ requestPool' = requestPool \cup {QueueKey(c)}
            /\ dpc' = [dpc EXCEPT ![c] = "queued"]
            /\ UNCHANGED <<activeRequests, outcome, state>>
       ELSE IF Admits(state)
         THEN /\ requestPool' = requestPool \cup {QueueKey(c)}
              /\ dpc' = [dpc EXCEPT ![c] = "upstream"]
              /\ activeRequests' = activeRequests + 1
              /\ state' = AdmittedState(state)
              /\ UNCHANGED <<requestQueue, outcome>>
         ELSE \* added, rejected with the circuit-open error, removed by finally
              /\ dpc' = [dpc EXCEPT ![c] = "done"]
              /\ outcome' = [outcome EXCEPT ![c] = "rejected"]
              /\ UNCHANGED <<requestPool, requestQueue, activeRequests, state>>
  /\ UNCHANGED <<cache, useCache, returned, waitedOn, upstreamCalls, cleared, timer, tries>>
  /\ UNCHANGED <<failureCount, lastFailureTime, failureThreshold, timeoutMs, now, pc, probe,
                 streak, prevState, event>>
  /\ UNCHANGED <<retryVars, classifyVars, delayVars, resilientVars, grafanaVars, maxSize, maxMemoryBytes,
                 cnow, cacheOp>>

\* processRequestQueue after a response left n requests active
Releases(n) == n < MaxConcurrent /\ requestQueue # <<>>

\* The upstream answers the HTTP request of caller c. The response interceptor
\* counts the request out and runs processRequestQueue, which starts the first
\* queued operation (admitted or rejected by the breaker as it stands); then the
\* answer reaches withRetry and execute of caller c, and the end of its get.
Response(c, r) ==
  /\ dpc[c] = "upstream"
  /\ LET n == activeRequests - 1
         rel == Releases(n)
         q == IF rel THEN Head(requestQueue) ELSE c
         adm == rel /\ Admits(state)
         st1 == IF adm THEN AdmittedState(state) ELSE state
         retry == r = "retryable" /\ tries[c] < MaxQueueRetries
         failed == r # "ok" /\ ~retry
         pool1 == IF rel /\ ~adm THEN requestPool \ {QueueKey(q)} ELSE requestPool
         dpc1 == IF rel THEN [dpc EXCEPT ![q] = IF adm THEN "upstream" ELSE "done"] ELSE dpc
         out1 == IF rel /\ ~adm THEN [outcome EXCEPT ![q] = "rejected"] ELSE outcome
     IN
     /\ requestQueue' = IF rel THEN Tail(requestQueue) ELSE requestQueue
     /\ activeRequests' = IF adm THEN n + 1 ELSE n
     /\ tries' = [tries EXCEPT ![c] = IF retry THEN @ + 1 ELSE @]
     /\ dpc' = [dpc1 EXCEPT ![c] = IF retry THEN "sleeping" ELSE "done"]
     /\ outcome' = [out1 EXCEPT ![c] = IF retry THEN @ ELSE IF failed THEN "rejected"
                                                                    ELSE "resolved"]
     /\ returned' = [returned EXCEPT ![c] = IF r = "ok" THEN "v1" ELSE @]
     /\ requestPool' = IF retry THEN pool1 ELSE pool1 \ {QueueKey(c)}
     /\ cache' = IF r = "ok"
                   THEN AfterSet(cache, QueueKey(c), "v1", LongTtl, cnow, maxSize,
                                 maxMemoryBytes)
                   ELSE cache
     \* onSuccess / onFailure of caller c
     /\ state' = IF r = "ok" THEN "CLOSED"
                 ELSE IF failed /\ failureCount + 1 >= failureThreshold THEN "OPEN"
                 ELSE st1
     /\ failureCount' = IF r = "ok" THEN 0
                        ELSE IF failed THEN failureCount + 1 ELSE failureCount
     /\ lastFailureTime' = IF r = "ok" THEN Null
                           ELSE IF failed THEN now ELSE lastFailureTime
  /\ UNCHANGED <<useCache, waitedOn, upstreamCalls, cleared, timer>>
  /\ UNCHANGED <<failureThreshold, timeoutMs, now, pc, probe, streak, prevState, event>>
  /\ UNCHANGED <<retryVars, classifyVars, delayVars, resilientVars, grafanaVars, maxSize, maxMemoryBytes,
                 cnow, cacheOp>>

\* the backoff sleep of caller c ends: withRetry sends the next attempt
RetryFires(c) ==
  /\ dpc[c] = "sleeping"
  /\ dpc' = [dpc EXCEPT ![c] = "upstream"]
  /\ activeRequests' = activeRequests + 1
  /\ UNCHANGED <<cache, requestPool, useCache, outcome, returned, waitedOn, upstreamCalls,
                 cleared, timer, requestQueue, tries>>
  /\ UNCHANGED <<breakerVars, retryVars, classifyVars, delayVars, resilientVars, grafanaVars, maxSize,
                 maxMemoryBytes, cnow, cacheOp>>

InitQueue ==
  /\ opts = DEFAULT_RETRY_OPTIONS
  /\ RetryIdle /\ ClassifyIdle /\ DelayIdle /\ BreakerIdle /\ ResilientIdle
  /\ failureThreshold \in 1..MaxFailureThreshold
  /\ timeoutMs = MaxTimeoutMs
  /\ cache = <<>>
  /\ cnow = 0
  /\ cacheOp = NoOp
  /\ maxSize = 1000
  /\ maxMemoryBytes = ResponseMemoryBytes
  /\ requestPool = {}
  /\ dpc = [c \in QueueCallers |-> "idle"]
  /\ useCache = [c \in QueueCallers |-> TRUE]
  /\ outcome = [c \in QueueCallers |-> "pending"]
  /\ returned = [c \in QueueCallers |-> "null"]
  /\ waitedOn = [c \in QueueCallers |-> {}]
  /\ upstreamCalls = 0
  /\ cleared = FALSE
  /\ timer = [c \in QueueCallers |-> Null]
  /\ activeRequests = 0
  /\ requestQueue = <<>>
  /\ tries = [c \in QueueCallers |-> 0]
  /\ GrafanaIdle

NextQueue ==
  \/ \E c \in QueueCallers : QueueGet(c)
  \/ \E c \in QueueCallers, r \in Answers : Response(c, r)
  \/ \E c \in QueueCallers : RetryFires(c)
  \/ Cleanup

\* every HTTP request is answered (the transport has a timeout) and every backoff
\* sleep ends; nothing obliges new calls to arrive
SpecQueue ==
  /\ InitQueue
  /\ [][NextQueue]_vars
  /\ \A c \in QueueCallers : WF_vars(\E r \in Answers : Response(c, r))
  /\ \A c \in QueueCallers : WF_vars(RetryFires(c))

\* ------------------------------------------------------------------ GrafanaHttpClient.get
\* One caller calls get again and again, each call after the one before has settled.
\* The resilient handler has the configuration of the constructor: the default
\* retry options, failureThreshold 5, timeoutMs 60000.
CACHE_TTL == 60000
GrafanaFailureThreshold == 5
GrafanaTimeoutMs == 60000
\* the clock moves in steps of half the TTL, up to GrafanaHorizon
HalfTtl == CACHE_TTL \div 2
MaxGrafanaTicks == 4
GrafanaHorizon == MaxGrafanaTicks * HalfTtl

GrafanaData == {"v1", "v2", ""}
\* what the upstream can answer a request with, other than success
GrafanaUpstreamErrors == { MkError("", 503), MkError("ECONNREFUSED", 0), MkError("", 404) }

\* addErrorInterceptors: every rejection of the axios client is replaced by a
\* GrafanaError { message, status, error }, which has no `code` and no `response`
GrafanaErrorOf(error) == MkError("", 0)

\* getCachedResponse: what it returns
GetCachedResponse(rc, k, t) ==
  IF rc[k].has /\ rc[k].expires > t THEN rc[k].data ELSE "null"

\* getCachedResponse: the Map it leaves (an entry that is not returned is deleted)
AfterGetCached(rc, k, t) ==
  IF rc[k].has /\ ~(rc[k].expires > t) THEN [rc EXCEPT ![k] = NoEntry] ELSE rc

\* setCachedResponse
SetCachedResponse(rc, k, d, t) ==
  [rc EXCEPT ![k] = [has |-> TRUE, data |-> d, expires |-> t + CACHE_TTL]]

\* get(url, params, u) up to its first suspension: with useCache, a truthy cached
\* value is returned; otherwise executeWithResilience is entered
GrafanaGet(k, u) ==
  /\ pc[1] = "idle"
  /\ gkey' = k
  /\ guse' = u
  /\ upstreamError' = NoError
  /\ IF u /\ Truthy(GetCachedResponse(responseCache, k, now))
       THEN /\ rpc' = "returned"
            /\ result' = GetCachedResponse(responseCache, k, now)
            /\ attempt' = 0
            /\ invocations' = 0
            /\ lastError' = NoError
            /\ thrown' = NoError
            /\ sleeps' = <<>>
            /\ errHist' = <<>>
            /\ event' = "cache_hit"
            /\ prevState' = state
            /\ UNCHANGED <<opts, state, failureCount, lastFailureTime, failureThreshold,
                           timeoutMs, now, pc, probe, streak, responseCache>>
       ELSE /\ ResilientCallCore
            /\ responseCache' = IF u THEN AfterGetCached(responseCache, k, now)
                                ELSE responseCache
  /\ UNCHANGED <<lastFetch, resp500, classifyVars, delayVars, cacheVars, dedupVars, queueVars>>

\* the upstream answers with data v: withRetry returns, execute runs onSuccess, and
\* with useCache the result is stored
GrafanaResolves(v) ==
  /\ AttemptResolvesCore(v)
  /\ OperationResolvesCore(1)
  /\ resp500' = 0
  /\ responseCache' = IF guse THEN SetCachedResponse(responseCache, gkey, v, now)
                      ELSE responseCache
  /\ lastFetch' = IF guse THEN [lastFetch EXCEPT ![gkey] = [has |-> TRUE, data |-> v, at |-> now]]
                  ELSE lastFetch
  /\ UNCHANGED <<gkey, guse, upstreamError>>
  /\ UNCHANGED <<classifyVars, delayVars, cacheVars, dedupVars, queueVars>>

\* the upstream answers with an error: the interceptor replaces it, withRetry's
\* catch block sees the replacement; when withRetry throws, execute runs onFailure
GrafanaRejects(error) ==
  /\ AttemptRejectsCore(GrafanaErrorOf(error))
  /\ resp500' = Count500(error)
  /\ upstreamError' = error
  /\ IF rpc' = "thrown"
       THEN OperationRejectsCore(1)
       ELSE UNCHANGED breakerVars
  /\ UNCHANGED <<responseCache, gkey, guse, lastFetch>>
  /\ UNCHANGED <<classifyVars, delayVars, cacheVars, dedupVars, queueVars>>

\* the clock read by Date.now() advances by half the TTL
GrafanaTick ==
  /\ now < GrafanaHorizon
  /\ now' = now + HalfTtl
  /\ event' = "tick"
  /\ prevState' = state
  /\ UNCHANGED <<state, failureCount, lastFailureTime, failureThreshold, timeoutMs,
                 pc, probe, streak>>
  /\ UNCHANGED notBreaker

InitGrafana ==
  /\ opts = DEFAULT_RETRY_OPTIONS
  /\ RetryIdle /\ ClassifyIdle /\ DelayIdle /\ BreakerIdle /\ ResilientIdle /\ CacheIdle
  /\ DedupIdle /\ QueueIdle /\ GrafanaIdle
  /\ failureThreshold = GrafanaFailureThreshold
  /\ timeoutMs = GrafanaTimeoutMs

NextGrafana ==
  \/ \E k \in GrafanaKeys, u \in BOOLEAN : GrafanaGet(k, u)
  \/ \E v \in GrafanaData : GrafanaResolves(v)
  \/ \E e \in GrafanaUpstreamErrors : GrafanaRejects(e)
  \/ GrafanaTick

SpecGrafana == InitGrafana /\ [][NextGrafana]_vars

\* ================================================================== claims
AllRetryable == \A i \in 1..Len(errHist) : IsRetryableError(errHist[i], opts)
LastObserved == errHist[Len(errHist)]

\* C1: an operation that always fails with a retryable error is invoked exactly
\* maxRetries + 1 times, with maxRetries sleeps (none after the final attempt), and
\* the error thrown is the one of the last attempt; and in every state of every call
\* at most maxRetries + 1 invocations and maxRetries sleeps have happened.
C1_ExhaustedRetries ==
  /\ invocations <= opts.maxRetries + 1
  /\ Len(sleeps) <= opts.maxRetries
  /\ (rpc = "sleeping" => attempt <= opts.maxRetries)
  /\ (rpc = "thrown" /\ AllRetryable) =>
        /\ invocations = opts.maxRetries + 1
        /\ Len(errHist) = opts.maxRetries + 1
        /\ Len(sleeps) = opts.maxRetries
        /\ thrown = LastObserved

C1_Witness ==
  /\ rpc = "thrown" /\ AllRetryable
  /\ opts.maxRetries = 3
  /\ Len(errHist) = 4
  /\ errHist[1] # errHist[4]

\* the i-th backoff delay, bounded from the policy alone (units of 1/Scale ms)
BackoffBase(i) == opts.baseDelayMs * Pow(opts.exponentialBase, i - 1)
WithinJitter(d, i) ==
  /\ d >= Min(BackoffBase(i) * 7 * JitterSteps, opts.maxDelayMs * Scale)
  /\ d <= Min(BackoffBase(i) * 9 * JitterSteps, opts.maxDelayMs * Scale)

IsScenario503 ==
  /\ opts = DEFAULT_RETRY_OPTIONS
  /\ Len(errHist) = 3
  /\ \A i \in 1..3 : errHist[i] = MkError("", 503)

C3_NonRetryableStops ==
  /\ \A i \in 1..(Len(errHist) - 1) : IsRetryableError(errHist[i], opts)
  /\ (Len(errHist) > 0 /\ ~IsRetryableError(LastObserved, opts)) =>
        /\ rpc = "thrown"
        /\ thrown = LastObserved
        /\ invocations = Len(errHist)
        /\ Len(sleeps) = Len(errHist) - 1
        /\ (~IsRetryableError(errHist[1], opts) => invocations = 1)

C3_Witness ==
  /\ rpc = "thrown"
  /\ Len(errHist) = 2
  /\ opts.maxRetries = 3
  /\ IsRetryableError(errHist[1], opts)
  /\ ~IsRetryableError(errHist[2], opts)

\* the classification the claim states
NetworkCodes == {"ETIMEDOUT", "ECONNREFUSED", "ENOTFOUND", "ECONNABORTED"}
StatedClass(error, options) ==
  IF error.code \in NetworkCodes THEN "retryable"
  ELSE IF error.status # 0
    THEN (IF error.status \in options.retryableStatuses THEN "retryable"
          ELSE "non-retryable")
  ELSE "non-retryable"

\* C4: for every error code and response status, a network-level failure (ETIMEDOUT,
\* ECONNREFUSED, ENOTFOUND, ECONNABORTED) is classified retryable, an upstream
\* response is retryable iff its status is in retryableStatuses, anything else is not.
C4_Classification ==
  classified # "unset" => classified = StatedClass(clsError, opts)

\* C5: for every attempt >= 1 and jitter draw the delay is at most maxDelay, and the
\* un-jittered exponential delay does not decrease from one attempt to the next.
C5_DelayBounded ==
  delayAttempt >= 1 =>
    /\ delay <= opts.maxDelayMs * Scale
    /\ (delayAttempt >= 2 => prevExpDelay <= expDelay)

C5_Witness ==
  /\ delayAttempt = 5
  /\ opts.baseDelayMs = 1000 /\ opts.exponentialBase = 2 /\ opts.maxDelayMs = 10000
  /\ delay = opts.maxDelayMs * Scale
  /\ expDelay = 16000 /\ prevExpDelay = 8000

\* ------------------------------------------------------------------ breaker claims
CallArrives == event' \in {"admit", "circuit_open"}
Invoked == {t \in Tasks : pc[t] = "idle" /\ pc'[t] = "awaiting"}
CooldownRunning == lastFailureTime = Null \/ now - lastFailureTime < timeoutMs

\* C6: every failed call adds one to failureCount, every successful call sets it to
\* 0, and a Closed breaker opens on the step that completes the failureThreshold-th
\* failure since the last success, on no other step; it is Closed exactly while
\* fewer than failureThreshold failures have completed since the last success.
C6_OpensAtThreshold ==
  [][ /\ (event' = "error" => failureCount' = failureCount + 1)
      /\ (event' = "ok" => failureCount' = 0)
      /\ (state = "CLOSED" =>
            (state' = "OPEN" <=> (event' = "error" /\ streak' = failureThreshold)))
      /\ (state = "CLOSED" => state' \in {"CLOSED", "OPEN"})
      /\ (state' = "CLOSED" <=> streak' < failureThreshold)
    ]_vars

C6_Witness ==
  /\ prevState = "CLOSED"
  /\ state = "OPEN"
  /\ event = "error"
  /\ failureThreshold = 2
  /\ failureCount = 2
  /\ streak = 2

\* C7: a call that arrives while the breaker is Open and the cooldown has not
\* elapsed is rejected with the circuit-open error, no operation is invoked, and
\* state, failureCount and lastFailureTime are left as they were.
C7_OpenRejects ==
  [][ (state = "OPEN" /\ CooldownRunning /\ CallArrives) =>
        /\ event' = "circuit_open"
        /\ Invoked = {}
        /\ pc' = pc
        /\ UNCHANGED <<state, failureCount, lastFailureTime>>
    ]_vars

C7_Witness ==
  /\ prevState = "OPEN"
  /\ state = "OPEN"
  /\ event = "circuit_open"
  /\ lastFailureTime # Null
  /\ now - lastFailureTime = 1
  /\ timeoutMs = 2

\* C8 as stated: a call that arrives while Open with
\* now - lastFailureTime >= cooldownDuration (equality included) moves the breaker to
\* Half-Open and invokes the operation once; an earlier call is rejected; a clock
\* tick alone never changes the state.
C8_ResetAtEquality ==
  [][ /\ (state = "OPEN" /\ lastFailureTime # Null /\ CallArrives
            /\ now - lastFailureTime >= timeoutMs) =>
           (state' = "HALF_OPEN" /\ event' = "admit" /\ Cardinality(Invoked) = 1)
      /\ (state = "OPEN" /\ CallArrives /\ CooldownRunning) =>
           (state' = "OPEN" /\ event' = "circuit_open" /\ Invoked = {})
      /\ (event' = "tick" => state' = state)
    ]_vars

\* C8 amended: the call is admitted (Half-Open, operation invoked once) when
\* now - lastFailureTime > cooldownDuration, strictly; a call with
\* now - lastFailureTime <= cooldownDuration is rejected; a clock tick alone never
\* changes the state.
C8_ResetAfterCooldown ==
  [][ /\ (state = "OPEN" /\ lastFailureTime # Null /\ CallArrives
            /\ now - lastFailureTime > timeoutMs) =>
           (state' = "HALF_OPEN" /\ event' = "admit" /\ Cardinality(Invoked) = 1)
      /\ (state = "OPEN" /\ CallArrives
            /\ (lastFailureTime = Null \/ now - lastFailureTime <= timeoutMs)) =>
           (state' = "OPEN" /\ event' = "circuit_open" /\ Invoked = {})
      /\ (event' = "tick" => state' = state)
    ]_vars

C8_Witness ==
  /\ prevState = "OPEN"
  /\ state = "HALF_OPEN"
  /\ event = "admit"
  /\ now - lastFailureTime = timeoutMs + 1
  /\ Cardinality({t \in Tasks : pc[t] = "awaiting"}) = 1

\* C9: in Half-Open a successful call closes the breaker with failureCount 0; a
\* failed call opens it again with lastFailureTime set to the time of that failure,
\* and the breaker leaves Open for Half-Open only after a full cooldown.
C9_HalfOpenOutcome ==
  [][ /\ (state = "HALF_OPEN" /\ event' = "ok") =>
           (state' = "CLOSED" /\ failureCount' = 0)
      /\ (state = "HALF_OPEN" /\ event' = "error") =>
           (state' = "OPEN" /\ lastFailureTime' = now)
      /\ (state = "OPEN" /\ state' = "HALF_OPEN") =>
           now - lastFailureTime >= timeoutMs
    ]_vars

C9_Witness ==
  /\ prevState = "HALF_OPEN"
  /\ event = "error"
  /\ state = "OPEN"
  /\ failureCount = failureThreshold + 1
  /\ lastFailureTime = now
  /\ now > timeoutMs

\* C10: at no time are two operations that were admitted in Half-Open outstanding
\* together.
C10_SingleProbe ==
  Cardinality({t \in Tasks : pc[t] = "awaiting" /\ probe[t]}) <= 1

\* C11: in every reachable state, whatever the interleaving of execute calls
\* (admitted, rejected, completing out of order) and reset(), an Open breaker has a
\* lastFailureTime.
C11_OpenHasFailureTime ==
  state = "OPEN" => lastFailureTime # Null

C11_Witness ==
  /\ state = "OPEN"
  /\ lastFailureTime # Null
  /\ event = "error"
  /\ prevState = "OPEN"
  /\ failureCount > failureThreshold

\* C12: reset() called in any state leaves the breaker Closed with failureCount 0
\* and lastFailureTime null, and an execute call that comes next is passed through to
\* its operation.
C12_ResetCloses ==
  [][ /\ (event' = "reset" =>
            (state' = "CLOSED" /\ failureCount' = 0 /\ lastFailureTime' = Null))
      /\ ((event = "reset" /\ CallArrives) =>
            (event' = "admit" /\ Cardinality(Invoked) = 1 /\ state' = "CLOSED"))
    ]_vars

C12_Witness ==
  /\ event = "reset"
  /\ prevState = "OPEN"
  /\ state = "CLOSED"
  /\ failureCount = 0
  /\ lastFailureTime = Null
  /\ \E t \in Tasks : pc[t] = "idle"

\* ------------------------------------------------------------------ executeWithResilience claims
InRetrySequence == rpc \in {"awaiting", "sleeping"}

\* C13: the breaker records only the net outcome of a retry sequence: attempts that
\* fail and are retried leave failureCount, lastFailureTime and state as they were; a
\* sequence that ends in success is one success (failureCount 0, Closed); a sequence
\* that ends in an error is exactly one failure.
C13_NetOutcome ==
  [][ /\ (InRetrySequence /\ rpc' \in {"awaiting", "sleeping"}) =>
           UNCHANGED <<failureCount, lastFailureTime, state>>
      /\ (InRetrySequence /\ rpc' = "returned") =>
           (failureCount' = 0 /\ state' = "CLOSED")
      /\ (InRetrySequence /\ rpc' = "thrown") =>
           failureCount' = failureCount + 1
    ]_vars

C13_Witness ==
  /\ rpc = "returned"
  /\ event = "ok"
  /\ Len(errHist) = 2
  /\ failureThreshold = 1
  /\ failureCount = 0
  /\ state = "CLOSED"
  /\ prevState = "CLOSED"

\* C14 as stated: with failureThreshold = 5 the fifth consecutive 500 response of
\* the upstream opens the circuit, and a call made within the cooldown is rejected
\* with the circuit-open error without any attempt.
C14_FiveResponsesOpen ==
  [][ /\ (failureThreshold = ScenarioThreshold /\ resp500 < ScenarioThreshold
            /\ resp500' = ScenarioThreshold) => state' = "OPEN"
      /\ (state = "OPEN" /\ CooldownRunning /\ CallArrives) =>
           (event' = "circuit_open" /\ invocations' = 0 /\ rpc' = "idle")
    ]_vars

\* C14 amended: with failureThreshold = 5 the circuit opens when the fifth
\* consecutive executeWithResilience call has failed (each call a whole retry
\* sequence), not before; a call made within the cooldown is then rejected with the
\* circuit-open error without any attempt and without touching the breaker.
C14_FiveFailedCallsOpen ==
  [][ /\ (failureThreshold = ScenarioThreshold /\ event' = "error"
            /\ streak' = ScenarioThreshold) => state' = "OPEN"
      /\ (failureThreshold = ScenarioThreshold /\ streak' < ScenarioThreshold) =>
           state' = "CLOSED"
      /\ (state = "OPEN" /\ CooldownRunning /\ CallArrives) =>
           /\ event' = "circuit_open"
           /\ invocations' = 0
           /\ rpc' = "idle"
           /\ UNCHANGED <<state, failureCount, lastFailureTime>>
    ]_vars

C14_Witness ==
  /\ failureThreshold = ScenarioThreshold
  /\ event = "circuit_open"
  /\ state = "OPEN"
  /\ streak = ScenarioThreshold
  /\ resp500 = ScenarioThreshold
  /\ opts.maxRetries = 2
  /\ invocations = 0
  /\ now - lastFailureTime < timeoutMs
\* a step of get(key); its key and result are in cacheOp'
IsGet == cacheOp'.op = "get"
\* a step of set(key, data, ttl)
IsSet == cacheOp'.op = "set"

\* C15 as stated: get returns the stored value only when now < expiresAt; at
\* now >= expiresAt it reports absent and the entry is gone.
C15_NotServedAtExpiry ==
  [][IsGet =>
       LET k == cacheOp'.key IN
       IF HasKey(cache, k) /\ cnow < cache[IndexOf(cache, k)].expires
         THEN cacheOp'.val = cache[IndexOf(cache, k)].data /\ HasKey(cache', k)
         ELSE cacheOp'.val = "null" /\ ~HasKey(cache', k)]_vars

\* C15 amended: get returns the stored value exactly when now <= expiresAt and
\* then keeps the entry; when now > expiresAt, or the key is not stored, it
\* reports absent and the key is not in the cache afterwards.
C15_ServedUntilExpiry ==
  [][IsGet =>
       LET k == cacheOp'.key IN
       IF HasKey(cache, k) /\ cnow <= cache[IndexOf(cache, k)].expires
         THEN cacheOp'.val = cache[IndexOf(cache, k)].data /\ HasKey(cache', k)
         ELSE cacheOp'.val = "null" /\ ~HasKey(cache', k)]_vars

\* a get that hit on an entry written earlier, at the instant of its expiry
C15_Witness ==
  /\ cacheOp.op = "get"
  /\ cacheOp.val # "null"
  /\ cnow > 0
  /\ HasKey(cache, cacheOp.key)
  /\ cache[IndexOf(cache, cacheOp.key)].expires = cnow
  /\ cache[IndexOf(cache, cacheOp.key)].lastAccessed = cnow

\* C16: set(k, v, ttl) followed immediately by get(k) returns v, and a get of
\* a stored key after its ttl has elapsed returns absent.
C16_RoundTrip ==
  [][/\ IsSet => GetResult(cache', cacheOp'.key, cnow') = cacheOp'.val
     /\ IsGet /\ HasKey(cache, cacheOp'.key)
          /\ cnow > cache[IndexOf(cache, cacheOp'.key)].expires
        => cacheOp'.val = "null"]_vars

\* C17: a set of a new key into a cache that holds maxSize live entries (and
\* stays within the memory limit) removes exactly one entry, one whose
\* lastAccessed is least, and keeps the new key.
C17_EvictsOldest ==
  [][/\ IsSet
     /\ ~HasKey(cache, cacheOp'.key)
     /\ Len(cache) = maxSize
     /\ ExpirePass(cache, cnow) = cache
     /\ (maxSize + 1) * EntryBytes <= maxMemoryBytes
     => /\ Len(cache') = maxSize
        /\ HasKey(cache', cacheOp'.key)
        /\ \E i \in 1..Len(cache) :
             /\ RemoveKey(cache', cacheOp'.key) = RemoveAt(cache, i)
             /\ \A j \in 1..Len(cache) :
                  cache[j].lastAccessed >= cache[i].lastAccessed]_vars

\* the keys of a cache
KeysOf(c) == {c[i].key : i \in 1..Len(c)}

\* C18: a set of a new key that takes the estimated footprint over
\* maxMemoryBytes (n entries after the expiry and capacity passes) leaves
\* floor(0.75 * n) entries, each at least as recently accessed as every
\* evicted one.
C18_MemoryPassKeepsThreeQuarters ==
  [][/\ IsSet
     /\ ~HasKey(cache, cacheOp'.key)
     /\ ExpirePass(cache, cnow) = cache
     /\ Len(cache) + 1 <= maxSize
     /\ (Len(cache) + 1) * EntryBytes > maxMemoryBytes
     => /\ Len(cache') = ((Len(cache) + 1) * 3) \div 4
        /\ \A i \in 1..Len(cache), j \in 1..Len(cache') :
             cache[i].key \notin KeysOf(cache')
               => cache'[j].lastAccessed >= cache[i].lastAccessed]_vars
\* upstream calls for the key that are outstanding
Outstanding == {c \in Callers : dpc[c] = "upstream"}

\* C19: at most one upstream call for the key is outstanding at any time.
C19_OneOutstanding == Cardinality(Outstanding) <= 1

\* caller b arrived while caller a's upstream call, the only one, was in flight;
\* a's call has resolved and been cached, b has polled since, nothing was cleared
\* and no timer fired
SecondServed(a, b) ==
  /\ a # b
  /\ waitedOn[b] = {a}
  /\ useCache[a] /\ useCache[b]
  /\ dpc[a] = "done" /\ outcome[a] = "resolved"
  /\ dpc[b] # "waiting" /\ outcome[b] # "timeout"
  /\ ~cleared
  /\ \A c \in Callers \ {a, b} : dpc[c] = "idle"

\* C20: a second call arriving while the first is in flight causes no second
\* upstream invocation and receives the first call's result, whatever value
\* the upstream resolved with.
C20_OneInvocation ==
  \A a, b \in Callers :
    SecondServed(a, b) =>
      /\ upstreamCalls = 1
      /\ dpc[b] = "done" /\ outcome[b] = "resolved"
      /\ returned[b] = returned[a]

\* C25: after every set returns, the cache holds at most maxSize entries.
C25_SizeBounded ==
  [][IsSet => Len(cache') <= maxSize]_vars

\* the callers whose awaited operation settles in this step
Settling == {t \in Tasks : pc[t] = "awaiting" /\ pc'[t] = "idle"}

\* C28: once Open, the breaker closes only through a successful Half-Open probe
\* or reset(); the success of an operation admitted before the circuit opened
\* leaves state Open, failureCount and lastFailureTime as they were.
C28_LateSuccessKeepsOpen ==
  [][ /\ (state = "OPEN" /\ state' = "CLOSED") =>
           (event' = "reset" \/ (event' = "ok" /\ \E t \in Settling : probe[t]))
      /\ (state = "OPEN" /\ event' = "ok" /\ \E t \in Settling : ~probe[t]) =>
           UNCHANGED <<state, failureCount, lastFailureTime>>
    ]_vars

\* an executeWithResilience call ends in an error: withRetry throws, or execute
\* rejects the call with the circuit-open error
EndsInError ==
  \/ InRetrySequence /\ rpc' = "thrown"
  \/ event' = "circuit_open"

\* C29 as stated: every executeWithResilience call that ends in an error adds
\* exactly one to failureCount, whatever the error.
C29_EveryErrorCounts ==
  [][EndsInError => failureCount' = failureCount + 1]_vars

\* C29 amended: every executeWithResilience call that was admitted to its
\* operation and ends in an error adds exactly one to failureCount, retryable or
\* not, and opens the circuit when the count reaches failureThreshold; a call
\* rejected with the circuit-open error leaves failureCount as it was.
C29_AdmittedErrorCounts ==
  [][ /\ (InRetrySequence /\ rpc' = "thrown") =>
           /\ failureCount' = failureCount + 1
           /\ event' = "error"
           /\ (failureCount' >= failureThreshold => state' = "OPEN")
      /\ (event' = "circuit_open") => failureCount' = failureCount
    ]_vars

\* the second of two calls failed on its first attempt with a 404 and opened the circuit
C29_Witness ==
  /\ rpc = "thrown"
  /\ event = "error"
  /\ thrown = MkError("", 404)
  /\ ~IsRetryableError(thrown, opts)
  /\ invocations = 1
  /\ failureThreshold = 2
  /\ failureCount = 2
  /\ streak = 2
  /\ prevState = "CLOSED"
  /\ state = "OPEN"

\* C27: the breaker has no terminal state: whenever it is Open, then, with time
\* advancing and calls arriving, a later call is admitted to the wrapped operation;
\* this holds after every failed probe as well.
C27_OpenLeadsToAdmission == (state = "OPEN") ~> (event = "admit")

\* a call admitted in Half-Open after the breaker had failed again since it opened
C27_Witness ==
  /\ event = "admit"
  /\ prevState = "OPEN"
  /\ state = "HALF_OPEN"
  /\ failureCount > failureThreshold + 1
  /\ \E t \in Tasks : probe[t]

\* the interval callback of waiter c finds the marker cleared and the cache entry absent
PollMisses(c) ==
  /\ dpc[c] = "waiting"
  /\ dpc'[c] # "waiting"
  /\ timer'[c] = timer[c]
  /\ ~Truthy(GetResult(cache, DedupKey, cnow))

\* the upstream call that a former waiter issued for itself settles
FreshCallSettles(c) ==
  /\ waitedOn[c] # {}
  /\ dpc[c] = "upstream"
  /\ dpc'[c] = "done"

\* C22: a waiter that finds the cache entry absent once the marker has cleared
\* issues its own upstream call, and what its caller receives is that call's
\* outcome: the value it resolved with, or its error.
C22_WaiterCallsAfresh ==
  [][\A c \in Callers :
       /\ PollMisses(c) =>
            /\ dpc'[c] = "upstream"
            /\ upstreamCalls' = upstreamCalls + 1
            /\ outcome'[c] = "pending"
       /\ FreshCallSettles(c) =>
            \/ outcome'[c] = "rejected"
            \/ /\ outcome'[c] = "resolved"
               /\ useCache[c] => GetResult(cache', DedupKey, cnow) = returned'[c]
    ]_vars

\* C23: a caller that is still waiting when its 30 s are over fails with the
\* deduplication-timeout error, no caller is waiting past that time, and every
\* waiting caller eventually stops waiting.
C23_WaitEnds ==
  /\ [](\A c \in Callers : dpc[c] = "waiting" => (timer[c] # Null /\ cnow <= timer[c]))
  /\ [][\A c \in Callers :
          (dpc[c] = "waiting" /\ timer[c] # Null /\ timer'[c] = Null) =>
            (outcome'[c] = "timeout" /\ dpc'[c] = "done")]_vars
  /\ \A c \in Callers : (dpc[c] = "waiting") ~> (dpc[c] # "waiting")

\* a waiter timed out while the call it waited on, the only one issued, is still in flight
C23_Witness ==
  \E c \in Callers :
    /\ outcome[c] = "timeout"
    /\ dpc[c] = "done"
    /\ timer[c] = Null
    /\ cnow >= WaitTimeoutMs
    /\ upstreamCalls = 1
    /\ \E d \in waitedOn[c] : dpc[d] = "upstream"
    /\ DedupKey \in requestPool

\* C30: the deduplication-timeout error reaches only a caller that is still
\* waiting on another caller's marker.
C30_TimeoutOnlyWhileWaiting ==
  [][\A c \in Callers :
       (outcome[c] # "timeout" /\ outcome'[c] = "timeout") => dpc[c] = "waiting"]_vars

\* C21: a key is in the in-flight set from before its upstream call is issued, no
\* key is left in the set by a call that has settled, and every key that enters
\* the set eventually leaves it.
C21_KeyLeaves ==
  /\ [][\A c \in QueueCallers :
          (dpc[c] = "idle" /\ dpc'[c] \in {"queued", "upstream"})
             => QueueKey(c) \in requestPool']_vars
  /\ [](\A c \in QueueCallers : dpc[c] = "done" => QueueKey(c) \notin requestPool)
  /\ \A c \in QueueCallers :
       (QueueKey(c) \in requestPool) ~> (QueueKey(c) \notin requestPool)

\* a step that is a call of get
GetStep == pc[1] = "idle" /\ event' \in {"cache_hit", "admit", "circuit_open"}

\* C24: GrafanaHttpClient.get with useCache = true: once a call for a key has fetched
\* and stored a result, every later call for that key made less than CACHE_TTL after
\* it returns that result without an upstream call, and a call made CACHE_TTL or more
\* after it is not served from the cache and leaves no entry behind
C24_ServedWithinTtl ==
  [][\A k \in GrafanaKeys :
       (GetStep /\ gkey' = k /\ guse' /\ lastFetch[k].has)
          => IF now - lastFetch[k].at < CACHE_TTL
               THEN rpc' = "returned" /\ invocations' = 0 /\ result' = lastFetch[k].data
               ELSE event' # "cache_hit" /\ ~responseCache'[k].has]_vars

\* C26: a get that ended in an error after the upstream answered with a transient
\* failure (408, 429, 5xx, connection refused or timeout) has made
\* maxRetries + 1 attempts
C26_TransientRetried ==
  (rpc = "thrown" /\ pc[1] = "idle" /\ IsRetryableError(upstreamError, opts))
     => invocations = opts.maxRetries + 1

====
